---- MODULE Spec2Model ----
(***************************************************************************)
(* Flow layout of typst (src/library/layout/flow.rs): FlowNode::layout     *)
(* drives a FlowLayouter over its children and returns one frame per       *)
(* region.  Lengths (Abs) are integers in points, with Inf standing for an *)
(* infinite length; positions inside an output frame are exact rationals   *)
(* [n, d] because fractional shares and centring divide.                   *)
(***************************************************************************)
EXTENDS Integers, Sequences, FiniteSets, TLC

\* ---------------------------------------------------------------- bounds
\* Longest child list scanned under Spec.
MaxChildren == 3
\* Longest child list scanned under SpecE2E.
MaxChildrenE2E == 4

\* ------------------------------------------------------- lengths (Abs)
\* Abs::inf(): the height of an unbounded region.
Inf == 1000000

IsFinite(a) == a # Inf

AbsAdd(a, b) == IF a = Inf \/ b = Inf THEN Inf ELSE a + b

AbsSub(a, b) == IF a = Inf THEN Inf ELSE a - b

AbsMin(a, b) == IF a = Inf THEN b ELSE IF b = Inf THEN a ELSE IF a < b THEN a ELSE b

AbsMax(a, b) == IF a = Inf \/ b = Inf THEN Inf ELSE IF a < b THEN b ELSE a

SizeOf(w, h) == [x |-> w, y |-> h]

SizeZero == SizeOf(0, 0)

\* ------------------------------------------- exact positions (rationals)
RECURSIVE GCD(_, _)
GCD(a, b) == IF b = 0 THEN a ELSE GCD(b, a % b)

AbsVal(a) == IF a < 0 THEN -a ELSE a

\* n/d in lowest terms with d > 0; d = 0 is the infinite length.
Norm(n, d) ==
    LET s == IF d < 0 THEN -1 ELSE 1
        g == GCD(AbsVal(n), AbsVal(d))
    IN  IF g = 0 THEN [n |-> 0, d |-> 1]
        ELSE [n |-> (s * n) \div g, d |-> (s * d) \div g]

RatInf == [n |-> 1, d |-> 0]

RatZero == [n |-> 0, d |-> 1]

RatOf(a) == IF a = Inf THEN RatInf ELSE [n |-> a, d |-> 1]

RatAdd(p, q) ==
    IF p.d = 0 \/ q.d = 0 THEN RatInf
    ELSE Norm(p.n * q.d + q.n * p.d, p.d * q.d)

RECURSIVE RatSum(_)
RatSum(s) == IF s = <<>> THEN RatZero ELSE RatAdd(Head(s), RatSum(Tail(s)))

\* a <= b on finite rationals.
RatLeq(p, q) == p.n * q.d <= q.n * p.d

PointOf(px, py) == [x |-> px, y |-> py]

\* Point::zero()
PointZero == PointOf(RatZero, RatZero)

\* ------------------------------------------------------------ alignment
\* Align derives Ord in declaration order.
AlignOrd(a) ==
    CASE a = "Left" -> 0
      [] a = "Center" -> 1
      [] a = "Right" -> 2
      [] a = "Top" -> 3
      [] a = "Horizon" -> 4
      [] a = "Bottom" -> 5

AlignMax(a, b) == IF AlignOrd(a) < AlignOrd(b) THEN b ELSE a

\* Align::position: start => 0, center => half, end => all of the free space.
Position(a, extent) ==
    IF a \in {"Left", "Top"} THEN RatZero
    ELSE IF a \in {"Center", "Horizon"}
         THEN (IF extent = Inf THEN RatInf ELSE Norm(extent, 2))
         ELSE RatOf(extent)

\* Axes<bool>::select
Select(expand, full, used) ==
    [x |-> IF expand.x THEN full.x ELSE used.x,
     y |-> IF expand.y THEN full.y ELSE used.y]

\* ------------------------------------------------------------- regions
\* Regions::is_full: no height left in the current region.
IsFull(regions) == regions.first.y <= 0

\* Regions::next: take the next region off the backlog, if there is one.
RegionsNext(regions) ==
    IF Len(regions.backlog) > 0
    THEN [regions EXCEPT !.first = Head(regions.backlog),
                         !.backlog = Tail(regions.backlog)]
    ELSE regions

\* Rel<Abs>::relative_to: abs + ratio of the whole (a non-finite product is 0).
RelativeTo(v, whole) ==
    IF IsFinite(whole) THEN v.abs + v.rel * whole ELSE v.abs

\* Fr::share: weight / total * remaining, zero when that is not finite.
Share(v, total, remaining) ==
    IF total = 0 \/ ~IsFinite(remaining) THEN RatZero
    ELSE Norm(v * remaining, total)

\* ---------------------------------------------------- frames and items
\* A frame laid out by a child: id = <<index of the child, index of the frame>>.
ChildFrame(c, j, size, role) == [id |-> <<c, j>>, size |-> size, role |-> role]

NoFrame == ChildFrame(0, 0, SizeZero, "none")

NoAligns == [x |-> "Left", y |-> "Top"]

\* enum FlowItem
ItemAbsolute(v) == [kind |-> "Absolute", v |-> v, frame |-> NoFrame, aligns |-> NoAligns]

ItemFractional(v) == [kind |-> "Fractional", v |-> v, frame |-> NoFrame, aligns |-> NoAligns]

ItemFrame(frame, aligns) == [kind |-> "Frame", v |-> 0, frame |-> frame, aligns |-> aligns]

ItemPlaced(frame) == [kind |-> "Placed", v |-> 0, frame |-> frame, aligns |-> NoAligns]

\* enum Spacing
SpacingRelative(abs, rel) == [variant |-> "Relative", abs |-> abs, rel |-> rel, fr |-> 0]

SpacingFractional(w) == [variant |-> "Fractional", abs |-> 0, rel |-> 0, fr |-> w]

\* ------------------------------------------------------- FlowLayouter
\* FlowLayouter::new; log and acct are history kept for the properties:
\* log has one entry per finished region, acct the limited amounts of the
\* spacings staged in the current region.
NewLateExpand(regs) ==
    [regions |-> [regs EXCEPT !.expand.y = FALSE],
     expand |-> [regs.expand EXCEPT !.y = FALSE],
     full |-> regs.first,
     used |-> SizeZero,
     fr |-> 0,
     items |-> <<>>,
     finished |-> <<>>,
     log |-> <<>>,
     acct |-> <<>>]

New(regs) ==
    [regions |-> [regs EXCEPT !.expand.y = FALSE],
     expand |-> regs.expand,
     full |-> regs.first,
     used |-> SizeZero,
     fr |-> 0,
     items |-> <<>>,
     finished |-> <<>>,
     log |-> <<>>,
     acct |-> <<>>]

\* The amount of a spacing that is accounted: limited to the remaining space.
LimitedUnclamped(resolved, remaining) == resolved

Limited(resolved, remaining) == AbsMin(resolved, remaining)

\* FlowLayouter::layout_spacing
LayoutSpacingNoFr(st, spacing) ==
    IF spacing.variant = "Relative"
    THEN LET resolved == RelativeTo(spacing, st.full.y)
             limited == Limited(resolved, st.regions.first.y)
         IN  [st EXCEPT !.regions.first.y = AbsSub(@, limited),
                        !.used.y = AbsAdd(@, limited),
                        !.items = Append(@, ItemAbsolute(resolved)),
                        !.acct = Append(@, limited)]
    ELSE [st EXCEPT !.items = Append(@, ItemFractional(spacing.fr))]

LayoutSpacing(st, spacing) ==
    IF spacing.variant = "Relative"
    THEN LET resolved == RelativeTo(spacing, st.full.y)
             limited == Limited(resolved, st.regions.first.y)
         IN  [st EXCEPT !.regions.first.y = AbsSub(@, limited),
                        !.used.y = AbsAdd(@, limited),
                        !.items = Append(@, ItemAbsolute(resolved)),
                        !.acct = Append(@, limited)]
    ELSE [st EXCEPT !.items = Append(@, ItemFractional(spacing.fr)),
                    !.fr = @ + spacing.fr]

\* Whether fractional spacing claims the whole region.
FrClaimsAnyHeight(st) == st.fr > 0

FrClaims(st) == st.fr > 0 /\ IsFinite(st.full.y)

\* finish_region: the size of the output frame.
FrameSizeFull(st) == st.full

FrameSizeNoFr(st) == Select(st.expand, st.full, st.used)

FrameSize(st) ==
    LET size == Select(st.expand, st.full, st.used)
    IN  IF FrClaims(st) THEN [size EXCEPT !.y = st.full.y] ELSE size

\* finish_region: the space left for fractional spacing, taken before used.y
\* is overwritten.
RemainingLate(st) ==
    AbsSub(st.full.y, IF FrClaims(st) THEN st.full.y ELSE st.used.y)

Remaining(st) == AbsSub(st.full.y, st.used.y)

\* finish_region: how far an item advances the offset.
Advance(item, fr, remaining) ==
    CASE item.kind = "Absolute" -> RatOf(item.v)
      [] item.kind = "Fractional" -> Share(item.v, fr, remaining)
      [] item.kind = "Frame" -> RatOf(item.frame.size.y)
      [] item.kind = "Placed" -> RatZero

\* finish_region: where a Frame or Placed item goes; ctx holds the output
\* size and used.y as they are while the items are placed.
ItemPos(item, offset, ruler, ctx) ==
    IF item.kind = "Frame"
    THEN PointOf(Position(item.aligns.x, AbsSub(ctx.size.x, item.frame.size.x)),
                 RatAdd(offset, Position(ruler, AbsSub(ctx.size.y, ctx.usedy))))
    ELSE PointZero

\* finish_region: the ruler is the largest vertical alignment seen so far.
RulerOwn(ruler, item) == IF item.kind = "Frame" THEN item.aligns.y ELSE ruler

Ruler(ruler, item) ==
    IF item.kind = "Frame" THEN AlignMax(ruler, item.aligns.y) ELSE ruler

\* finish_region: the loop over the drained items, from item i on.
RECURSIVE PlaceItems(_, _, _, _, _)
PlaceItems(items, i, offset, ruler, ctx) ==
    IF i > Len(items) THEN <<>>
    ELSE LET item == items[i]
             ruler2 == Ruler(ruler, item)
             offset2 == RatAdd(offset, Advance(item, ctx.fr, ctx.remaining))
             rest == PlaceItems(items, i + 1, offset2, ruler2, ctx)
         IN  IF item.kind \in {"Frame", "Placed"}
             THEN <<[pos |-> ItemPos(item, offset, ruler2, ctx), frame |-> item.frame]>> \o rest
             ELSE rest

\* FlowLayouter::finish_region
FinishRegionKeepFr(st) ==
    LET size == FrameSize(st)
        remaining == Remaining(st)
        usedy == IF FrClaims(st) THEN st.full.y ELSE st.used.y
        ctx == [size |-> size, usedy |-> usedy, fr |-> st.fr, remaining |-> remaining]
        output == [size |-> size, subs |-> PlaceItems(st.items, 1, RatZero, "Top", ctx)]
        regions2 == RegionsNext(st.regions)
        entry == [full |-> st.full, used |-> st.used, fr |-> st.fr, items |-> st.items,
                  acct |-> st.acct,
                  contrib |-> [j \in 1..Len(st.items) |->
                                  Advance(st.items[j], st.fr, remaining)]]
    IN  [st EXCEPT !.items = <<>>,
                   !.regions = regions2,
                   !.full = regions2.first,
                   !.used = SizeZero,
                   !.finished = Append(@, output),
                   !.log = Append(@, entry),
                   !.acct = <<>>]

FinishRegion(st) ==
    LET size == FrameSize(st)
        remaining == Remaining(st)
        usedy == IF FrClaims(st) THEN st.full.y ELSE st.used.y
        ctx == [size |-> size, usedy |-> usedy, fr |-> st.fr, remaining |-> remaining]
        output == [size |-> size, subs |-> PlaceItems(st.items, 1, RatZero, "Top", ctx)]
        regions2 == RegionsNext(st.regions)
        entry == [full |-> st.full, used |-> st.used, fr |-> st.fr, items |-> st.items,
                  acct |-> st.acct,
                  contrib |-> [j \in 1..Len(st.items) |->
                                  Advance(st.items[j], st.fr, remaining)]]
    IN  [st EXCEPT !.items = <<>>,
                   !.regions = regions2,
                   !.full = regions2.first,
                   !.used = SizeZero,
                   !.fr = 0,
                   !.finished = Append(@, output),
                   !.log = Append(@, entry),
                   !.acct = <<>>]

\* layout_node: a placed node stages its first frame and nothing else.
StagePlacedInFlow(st, frame) ==
    [st EXCEPT !.used.y = AbsAdd(@, frame.size.y),
               !.items = Append(@, ItemPlaced(frame))]

StagePlaced(st, frame) == [st EXCEPT !.items = Append(@, ItemPlaced(frame))]

\* layout_node: a frame other than the node's last finishes its region; i is
\* the index enumerate() gives, counted from 0.
NeedsFinishAlways(i, len) == i + 1 <= len

NeedsFinish(i, len) == i + 1 < len

\* layout_node: the loop over the frames of the node, from frame i on.
RECURSIVE StageFrames(_, _, _, _, _)
StageFrames(st, c, frames, aligns, i) ==
    IF i > Len(frames) THEN st
    ELSE LET size == frames[i]
             frame == ChildFrame(c, i, size, "GenericBlock")
             s2 == [st EXCEPT !.used.y = AbsAdd(@, size.y),
                              !.used.x = AbsMax(@, size.x),
                              !.regions.first.y = AbsSub(@, size.y),
                              !.items = Append(@, ItemFrame(frame, aligns))]
             s3 == IF NeedsFinish(i - 1, Len(frames)) THEN FinishRegion(s2) ELSE s2
         IN  StageFrames(s3, c, frames, aligns, i + 1)

\* layout_node: the vertical alignment of an AlignNode, Top otherwise.
VAlign(node) == IF node.aligny = "None" THEN "Top" ELSE node.aligny

\* layout_node: don't even try layouting into a full region.
FinishIfFullSkip(st) == st

FinishIfFull(st) == IF IsFull(st.regions) THEN FinishRegion(st) ELSE st

\* FlowLayouter::layout_node for child number c; node.outcome is what the
\* block layout of the node returns.  The result is Ok(()) with the new
\* layouter, or the error of the block layout; offered is the region set
\* the block layout was called with.
LayoutNode(st, c, node) ==
    LET s1 == FinishIfFull(st)
        out == node.outcome
    IN  IF ~out.ok THEN [ok |-> FALSE, err |-> out.err, st |-> s1, offered |-> s1.regions]
        ELSE IF node.placed
        THEN [ok |-> TRUE, err |-> "none", offered |-> s1.regions,
              st |-> StagePlaced(s1, ChildFrame(c, 1, out.frames[1], "none"))]
        ELSE [ok |-> TRUE, err |-> "none", offered |-> s1.regions,
              st |-> StageFrames(s1, c, out.frames,
                                 [x |-> node.alignx, y |-> VAlign(node)], 1)]

\* finish: with vertical expansion, one frame for every region left.
RECURSIVE FinishBacklog(_)
FinishBacklog(st) ==
    IF Len(st.regions.backlog) > 0 THEN FinishBacklog(FinishRegion(st)) ELSE st

\* FlowLayouter::finish
FinishNoBacklog(st) == FinishRegion(st)

Finish(st) ==
    FinishRegion(IF st.expand.y THEN FinishBacklog(st) ELSE st)

\* ------------------------------------------------- FlowNode::layout
VARIABLES
    regions,    \* FlowLayouter.regions
    expand,     \* FlowLayouter.expand
    full,       \* FlowLayouter.full
    used,       \* FlowLayouter.used
    fr,         \* FlowLayouter.fr
    items,      \* FlowLayouter.items
    finished,   \* FlowLayouter.finished
    pc,         \* "scan" in the loop over the children, then "done" or "failed"
    result,     \* what FlowNode::layout returns
    regions0,   \* the regions argument of FlowNode::layout
    children,   \* history: the children dispatched so far, with snapshots
    log,        \* history: one entry per finished region
    acct        \* history: the limited amounts of the current region's spacings

vars == <<regions, expand, full, used, fr, items, finished, pc, result,
          regions0, children, log, acct>>

\* The layouter as one value, and its write-back.
St ==
    [regions |-> regions, expand |-> expand, full |-> full, used |-> used,
     fr |-> fr, items |-> items, finished |-> finished, log |-> log, acct |-> acct]

Install(st) ==
    /\ regions' = st.regions
    /\ expand' = st.expand
    /\ full' = st.full
    /\ used' = st.used
    /\ fr' = st.fr
    /\ items' = st.items
    /\ finished' = st.finished
    /\ log' = st.log
    /\ acct' = st.acct

\* What the history remembers of the layouter around a child.
Snap(st) ==
    [used |-> st.used, first |-> st.regions.first, backlog |-> st.regions.backlog,
     fr |-> st.fr, items |-> st.items, nfin |-> Len(st.finished)]

NoSpacing == SpacingRelative(0, 0)

\* No block layout was called for a child that is not a node.
NoRegions ==
    [first |-> SizeZero, backlog |-> <<>>, expand |-> [x |-> FALSE, y |-> FALSE]]

BlockOk(frames) == [ok |-> TRUE, frames |-> frames, err |-> "none"]

BlockErr(e) == [ok |-> FALSE, frames |-> <<>>, err |-> e]

\* A content node as layout_node sees it: whether it is a PlaceNode that is
\* out of flow, the vertical alignment of an AlignNode ("None" otherwise),
\* ParNode::ALIGN of its styles, and what its block layout returns.
ContentNode(placed, aligny, alignx, outcome) ==
    [placed |-> placed, aligny |-> aligny, alignx |-> alignx, outcome |-> outcome]

NoNode == ContentNode(FALSE, "None", "Left", BlockErr("none"))

ChildRec(type, spacing, node, pre, post, offered) ==
    [type |-> type, spacing |-> spacing, node |-> node, pre |-> pre, post |-> post,
     offered |-> offered]

Pending == [kind |-> "Pending", frames |-> <<>>, err |-> "none"]

InitWith(regs) ==
    /\ regions0 = regs
    /\ regions = New(regs).regions
    /\ expand = New(regs).expand
    /\ full = New(regs).full
    /\ used = New(regs).used
    /\ fr = New(regs).fr
    /\ items = New(regs).items
    /\ finished = New(regs).finished
    /\ log = New(regs).log
    /\ acct = New(regs).acct
    /\ pc = "scan"
    /\ result = Pending
    /\ children = <<>>

\* FlowChild::Spacing(kind) => layouter.layout_spacing(*kind, styles)
ChildSpacing(kind) ==
    /\ pc = "scan"
    /\ LET st == LayoutSpacing(St, kind)
       IN  /\ Install(st)
           /\ children' = Append(children,
                  ChildRec("Spacing", kind, NoNode, Snap(St), Snap(st), NoRegions))
    /\ UNCHANGED <<pc, result, regions0>>

\* The scan goes on after a node whose layout succeeded.
NodeOkIgnoreErr(r) == TRUE

NodeOk(r) == r.ok

\* FlowChild::Node(ref node) => layouter.layout_node(world, node, styles)?
ChildNode(node) ==
    /\ pc = "scan"
    /\ LET r == LayoutNode(St, Len(children) + 1, node)
       IN  /\ children' = Append(children,
                  ChildRec("Node", NoSpacing, node, Snap(St), Snap(r.st), r.offered))
           /\ Install(r.st)
           /\ IF NodeOk(r)
              THEN UNCHANGED <<pc, result>>
              ELSE /\ pc' = "failed"
                   /\ result' = [kind |-> "Err", frames |-> <<>>, err |-> r.err]
    /\ UNCHANGED regions0

\* FlowChild::Colbreak => layouter.finish_region()
ChildColbreakSkip(st) == st

ChildColbreakStep(st) == FinishRegion(st)

ChildColbreak ==
    /\ pc = "scan"
    /\ LET st == ChildColbreakStep(St)
       IN  /\ Install(st)
           /\ children' = Append(children,
                  ChildRec("Colbreak", NoSpacing, NoNode, Snap(St), Snap(st), NoRegions))
    /\ UNCHANGED <<pc, result, regions0>>

\* Ok(layouter.finish())
LayoutFinish ==
    /\ pc = "scan"
    /\ LET st == Finish(St)
       IN  /\ Install(st)
           /\ result' = [kind |-> "Ok", frames |-> st.finished, err |-> "none"]
    /\ pc' = "done"
    /\ UNCHANGED <<regions0, children>>

\* ------------------------------------------------------------- inputs
FrameA == SizeOf(30, 20)

FrameB == SizeOf(60, 50)

RegionWidth == 100

Page == SizeOf(RegionWidth, 100)

Column == SizeOf(RegionWidth, 40)

Unbounded == SizeOf(RegionWidth, Inf)

Expands == [x : BOOLEAN, y : BOOLEAN]

RegionsOf(first, backlog, exp) == [first |-> first, backlog |-> backlog, expand |-> exp]

\* A page followed by two columns, a single page, a single unbounded region.
RegionShapes == <<<<Page, <<Column, Column>>>>, <<Page, <<>>>>, <<Unbounded, <<>>>>>>

RegionSets ==
    {RegionsOf(RegionShapes[i][1], RegionShapes[i][2], e) :
        i \in DOMAIN RegionShapes, e \in Expands}

SpacingKinds ==
    {SpacingRelative(10, 0), SpacingRelative(-10, 0), SpacingRelative(0, 1),
     SpacingFractional(0), SpacingFractional(1), SpacingFractional(2)}

Nodes ==
    {ContentNode(FALSE, "None", "Left", BlockOk(<<FrameA>>)),
     ContentNode(FALSE, "Bottom", "Right", BlockOk(<<FrameB>>)),
     ContentNode(FALSE, "Horizon", "Center", BlockOk(<<FrameA>>)),
     ContentNode(FALSE, "None", "Left", BlockOk(<<FrameB, FrameA>>)),
     ContentNode(TRUE, "None", "Right", BlockOk(<<FrameB, FrameA>>)),
     ContentNode(FALSE, "None", "Left", BlockErr("E1")),
     ContentNode(TRUE, "None", "Left", BlockErr("E2"))}

\* ------------------------------------------------------ specifications
Init ==
    \E i \in DOMAIN RegionShapes, e \in Expands :
        InitWith(RegionsOf(RegionShapes[i][1], RegionShapes[i][2], e))

Next ==
    \/ \E kind \in SpacingKinds : Len(children) < MaxChildren /\ ChildSpacing(kind)
    \/ \E node \in Nodes : Len(children) < MaxChildren /\ ChildNode(node)
    \/ Len(children) < MaxChildren /\ ChildColbreak
    \/ LayoutFinish

Spec == Init /\ [][Next]_vars

\* The end-to-end scenario: one page, paragraphs of height 50 and 20.
Par50 == SizeOf(60, 50)

Par20 == SizeOf(60, 20)

RegionSetsE2E == {RegionsOf(Page, <<>>, e) : e \in Expands}

SpacingKindsE2E == {SpacingRelative(10, 0), SpacingFractional(1)}

NodesE2E ==
    {ContentNode(FALSE, "None", "Left", BlockOk(<<Par50>>)),
     ContentNode(FALSE, "None", "Left", BlockOk(<<Par20>>)),
     ContentNode(TRUE, "None", "Left", BlockOk(<<Par20>>)),
     ContentNode(FALSE, "None", "Left", BlockErr("E1"))}

InitE2E == \E regs \in RegionSetsE2E : InitWith(regs)

NextE2E ==
    \/ \E kind \in SpacingKindsE2E : Len(children) < MaxChildrenE2E /\ ChildSpacing(kind)
    \/ \E node \in NodesE2E : Len(children) < MaxChildrenE2E /\ ChildNode(node)
    \/ Len(children) < MaxChildrenE2E /\ ChildColbreak
    \/ LayoutFinish

SpecE2E == InitE2E /\ [][NextE2E]_vars

\* --------------------------------------------------------- properties
\* What the children dispatched so far were, without the snapshots.
ChildInputs ==
    [i \in 1..Len(children) |->
        [type |-> children[i].type, spacing |-> children[i].spacing,
         node |-> children[i].node]]

ChildInput(type, spacing, node) == [type |-> type, spacing |-> spacing, node |-> node]

RECURSIVE SumSeq(_)
SumSeq(s) == IF s = <<>> THEN 0 ELSE Head(s) + SumSeq(Tail(s))

RECURSIVE MaxSeq(_)
MaxSeq(s) ==
    IF s = <<>> THEN 0
    ELSE LET m == MaxSeq(Tail(s)) IN IF Head(s) > m THEN Head(s) ELSE m

\* The items of one kind among a region's items, in order.
ItemsOfKind(its, kind) == SelectSeq(its, LAMBDA it : it.kind = kind)

FrameHeights(its) ==
    LET fs == ItemsOfKind(its, "Frame") IN [j \in 1..Len(fs) |-> fs[j].frame.size.y]

FrameWidths(its) ==
    LET fs == ItemsOfKind(its, "Frame") IN [j \in 1..Len(fs) |-> fs[j].frame.size.x]

Weights(its) ==
    LET fs == ItemsOfKind(its, "Fractional") IN [j \in 1..Len(fs) |-> fs[j].v]

\* The history has one entry per finished frame.
LogMatchesFinished == Len(log) = Len(finished)

\* C1: the children [absolute spacing 10, node of one 50-high frame,
\* Colbreak, node of one 20-high frame] laid out into one region of height
\* 100 with an empty backlog return exactly two frames: the first region is
\* finished with used height 60 and holds the 50-high frame at vertical
\* offset 10, the second with used height 20 and holds only the 20-high
\* frame.
E2EInputs ==
    <<ChildInput("Spacing", SpacingRelative(10, 0), NoNode),
      ChildInput("Node", NoSpacing, ContentNode(FALSE, "None", "Left", BlockOk(<<Par50>>))),
      ChildInput("Colbreak", NoSpacing, NoNode),
      ChildInput("Node", NoSpacing, ContentNode(FALSE, "None", "Left", BlockOk(<<Par20>>)))>>

E2EScenario ==
    /\ pc = "done"
    /\ regions0.first = Page
    /\ regions0.backlog = <<>>
    /\ ChildInputs = E2EInputs

C1_EndToEnd ==
    E2EScenario =>
        /\ result.kind = "Ok"
        /\ Len(result.frames) = 2
        /\ log[1].used.y = 60
        /\ Len(result.frames[1].subs) = 1
        /\ result.frames[1].subs[1].frame = ChildFrame(2, 1, Par50, "GenericBlock")
        /\ result.frames[1].subs[1].pos.y = RatOf(10)
        /\ log[2].used.y = 20
        /\ Len(result.frames[2].subs) = 1
        /\ result.frames[2].subs[1].frame = ChildFrame(4, 1, Par20, "GenericBlock")

C1_Witness == E2EScenario /\ Len(result.frames) = 2

\* C2: a region finished with no fractional spacing staged (fr = 0) gets an
\* output frame whose size is, per axis, the full region size if the expand
\* flag given at construction is set and the used size otherwise, where the
\* used height is the sum of the limited spacings and the frame heights and
\* the used width is the largest frame width.
C2_Region(i) ==
    LET e == log[i]
        usedx == MaxSeq(FrameWidths(e.items))
        usedy == SumSeq(e.acct) + SumSeq(FrameHeights(e.items))
    IN  /\ Len(e.acct) = Len(ItemsOfKind(e.items, "Absolute"))
        /\ finished[i].size.x = (IF regions0.expand.x THEN e.full.x ELSE usedx)
        /\ finished[i].size.y = (IF regions0.expand.y THEN e.full.y ELSE usedy)

C2_FrameSizeByExpand ==
    /\ LogMatchesFinished
    /\ \A i \in 1..Len(log) : log[i].fr = 0 => C2_Region(i)

C2_Witness ==
    \E i \in 1..Len(log) :
        /\ log[i].fr = 0
        /\ regions0.expand.y /\ ~regions0.expand.x
        /\ ItemsOfKind(log[i].items, "Frame") # <<>>
        /\ ItemsOfKind(log[i].items, "Absolute") # <<>>
        /\ finished[i].size = SizeOf(30, 100)

\* C3: a region whose full height is finite and in which a fractional
\* spacer of positive weight was staged gets an output frame of exactly the
\* full height, whatever the vertical expand flag and the other items are.
HasPositiveFr(its) == \E j \in 1..Len(its) : its[j].kind = "Fractional" /\ its[j].v > 0

C3_FractionalFillsRegion ==
    /\ LogMatchesFinished
    /\ \A i \in 1..Len(log) :
          (IsFinite(log[i].full.y) /\ HasPositiveFr(log[i].items))
              => finished[i].size.y = log[i].full.y

C3_Witness ==
    \E i \in 1..Len(log) :
        /\ IsFinite(log[i].full.y) /\ HasPositiveFr(log[i].items)
        /\ ~regions0.expand.y
        /\ ItemsOfKind(log[i].items, "Frame") # <<>>
        /\ log[i].used.y < log[i].full.y
        /\ finished[i].size.y = log[i].full.y

\* C4: when a finite region with a positive fractional total is finished,
\* a Fractional item of weight w advances the offset by w / total * remaining
\* with remaining = full height - used height as used was on entry; two
\* spacers of equal weight alone in a region of height H advance it by H/2
\* each, and all the region's fractional advances sum to remaining.
FrAdvances(e) ==
    LET idx == SelectSeq([j \in 1..Len(e.items) |-> j],
                         LAMBDA j : e.items[j].kind = "Fractional")
    IN  [k \in 1..Len(idx) |-> e.contrib[idx[k]]]

C4_Region(e) ==
    LET total == SumSeq(Weights(e.items))
        remaining == e.full.y - e.used.y
    IN  /\ \A j \in 1..Len(e.items) :
              e.items[j].kind = "Fractional"
                  => e.contrib[j] = Norm(e.items[j].v * remaining, total)
        /\ RatSum(FrAdvances(e)) = RatOf(remaining)
        /\ (Len(e.items) = 2 /\ Len(Weights(e.items)) = 2
               /\ e.items[1].v = e.items[2].v)
              => (e.contrib[1] = Norm(e.full.y, 2) /\ e.contrib[2] = Norm(e.full.y, 2))

C4_FractionalShares ==
    \A i \in 1..Len(log) :
        (IsFinite(log[i].full.y) /\ log[i].fr > 0) => C4_Region(log[i])

C4_Witness ==
    \E i \in 1..Len(log) :
        LET e == log[i]
        IN  /\ IsFinite(e.full.y) /\ e.fr = 3
            /\ e.used.y > 0 /\ e.used.y < e.full.y
            /\ Len(e.items) = 3
            /\ e.items[1].kind = "Fractional" /\ e.items[1].v = 1
            /\ e.items[3].kind = "Fractional" /\ e.items[3].v = 2
            /\ e.contrib[1] = Norm(e.full.y - e.used.y, 3)
            /\ e.contrib[3] = Norm(2 * (e.full.y - e.used.y), 3)

\* C5: while the children are absolute spacings only, the used height is the
\* sum, over the spacings staged so far, of the smaller of the resolved
\* value and the height that remained in the region when it was staged.
OnlyAbsoluteSpacing ==
    \A i \in 1..Len(children) :
        children[i].type = "Spacing" /\ children[i].spacing.variant = "Relative"

RECURSIVE ClampedSum(_, _, _)
ClampedSum(i, remaining, whole) ==
    IF i > Len(children) THEN 0
    ELSE LET v == children[i].spacing
             resolved == IF whole = Inf THEN v.abs ELSE v.abs + v.rel * whole
             clamped == IF remaining # Inf /\ remaining < resolved
                        THEN remaining ELSE resolved
             left == IF remaining = Inf THEN Inf ELSE remaining - clamped
         IN  clamped + ClampedSum(i + 1, left, whole)

C5_UsedIsClampedSum ==
    (pc = "scan" /\ OnlyAbsoluteSpacing)
        => used.y = ClampedSum(1, regions0.first.y, regions0.first.y)

C5_Witness ==
    /\ pc = "scan" /\ OnlyAbsoluteSpacing
    /\ Len(children) = 3
    /\ \E i \in 1..Len(children) :
          children[i].post.used.y - children[i].pre.used.y < items[i].v
    /\ used.y = regions0.first.y

\* C6 as stated: a layout_node call whose block layout yields k >= 1 frames
\* appends k frames to the finished list, and none of its first k-1 frames
\* shares an output frame with an item staged later.
NodeCalls == {c \in 1..Len(children) : children[c].type = "Node" /\ children[c].node.outcome.ok}

Advances(c) == children[c].post.nfin - children[c].pre.nfin

\* Frame j of child c is the last item of the region it was finished in.
ClosesItsRegion(c, j) ==
    \E i \in 1..Len(log) :
        /\ log[i].items # <<>>
        /\ log[i].items[Len(log[i].items)].kind = "Frame"
        /\ log[i].items[Len(log[i].items)].frame.id = <<c, j>>

C6_Original ==
    \A c \in NodeCalls :
        LET k == Len(children[c].node.outcome.frames)
        IN  /\ Advances(c) = k
            /\ \A j \in 1..(k - 1) : ClosesItsRegion(c, j)

\* C6 amended: a layout_node call on an in-flow node whose block layout
\* yields k >= 1 frames finishes the region after each of the first k-1
\* frames only: it appends k-1 frames to the finished list, and one more if
\* the region was full when the call began; the last frame stays staged; and
\* none of the first k-1 frames shares an output frame with an item staged
\* later.
FullAtEntry(c) == children[c].pre.first.y <= 0

C6_RegionAdvances ==
    \A c \in NodeCalls :
        LET k == Len(children[c].node.outcome.frames)
            post == children[c].post
        IN  ~children[c].node.placed =>
              /\ Advances(c) = (k - 1) + (IF FullAtEntry(c) THEN 1 ELSE 0)
              /\ \A j \in 1..(k - 1) : ClosesItsRegion(c, j)
              /\ post.items # <<>>
              /\ post.items[Len(post.items)].kind = "Frame"
              /\ post.items[Len(post.items)].frame.id = <<c, k>>

C6_Witness ==
    \E c \in NodeCalls :
        /\ ~children[c].node.placed
        /\ Len(children[c].node.outcome.frames) = 2
        /\ ~FullAtEntry(c)
        /\ children[c].pre.items # <<>>
        /\ Advances(c) = 1
        /\ c < Len(children)
        /\ children[c + 1].type = "Spacing"
        /\ pc = "done"

\* C7 as stated: laying out an out-of-flow placed node leaves used width,
\* used height, the remaining height and the fractional total unchanged,
\* stages exactly one Placed item, the first frame of its block layout, and
\* that frame is positioned at (0,0) when the region is finished.
PlacedCalls == {c \in NodeCalls : children[c].node.placed}

PlacedItemOf(c) ==
    ItemPlaced(ChildFrame(c, 1, children[c].node.outcome.frames[1], "none"))

\* Every sub-frame that child c contributed to a finished frame is at (0,0).
AtOrigin(c) ==
    \A i \in 1..Len(finished) :
        \A j \in 1..Len(finished[i].subs) :
            finished[i].subs[j].frame.id[1] = c => finished[i].subs[j].pos = PointZero

StagedOnce(c) ==
    /\ children[c].post.items # <<>>
    /\ children[c].post.items[Len(children[c].post.items)] = PlacedItemOf(c)
    /\ Len(ItemsOfKind(children[c].post.items, "Placed"))
          = 1 + (IF children[c].post.nfin = children[c].pre.nfin
                 THEN Len(ItemsOfKind(children[c].pre.items, "Placed")) ELSE 0)

C7_Original ==
    \A c \in PlacedCalls :
        /\ children[c].post.used = children[c].pre.used
        /\ children[c].post.first.y = children[c].pre.first.y
        /\ children[c].post.fr = children[c].pre.fr
        /\ StagedOnce(c)
        /\ AtOrigin(c)

\* C7 amended: laying out an out-of-flow placed node in a region that is
\* not full leaves used width, used height, the remaining height and the
\* fractional total unchanged; in a region found full, layout_node first
\* finishes that region, so used and fr are zero and the remaining height is
\* that of the region entered; either way it stages exactly one Placed item
\* after the items already there, the first frame of its block layout, and
\* at region finish that frame is positioned at (0,0).
C7_PlacedOutOfFlow ==
    \A c \in PlacedCalls :
        LET pre == children[c].pre
            post == children[c].post
        IN  /\ ~FullAtEntry(c) =>
                  /\ post.used = pre.used
                  /\ post.first = pre.first
                  /\ post.fr = pre.fr
                  /\ post.nfin = pre.nfin
                  /\ post.items = Append(pre.items, PlacedItemOf(c))
            /\ FullAtEntry(c) =>
                  /\ post.used = SizeZero
                  /\ post.fr = 0
                  /\ post.nfin = pre.nfin + 1
                  /\ post.first = (IF pre.backlog # <<>> THEN Head(pre.backlog)
                                   ELSE pre.first)
                  /\ post.items = <<PlacedItemOf(c)>>
            /\ AtOrigin(c)

C7_Witness ==
    \E c \in PlacedCalls :
        /\ ~FullAtEntry(c)
        /\ children[c].pre.used.y > 0
        /\ \E j \in 1..Len(children[c].pre.items) :
              /\ children[c].pre.items[j].kind = "Frame"
              /\ children[c].pre.items[j].aligns.y = "Bottom"
        /\ pc = "done"
        /\ \E i \in 1..Len(finished) :
              \E j \in 1..Len(finished[i].subs) :
                  /\ finished[i].subs[j].frame.id = <<c, 1>>
                  /\ finished[i].subs[j].pos = PointZero

\* C8: with vertical expansion, finish() returns a frame for every region
\* offered: the backlog is empty on return, there are at least 1 + (initial
\* backlog length) frames, and exactly that many when the scan over the
\* children finished no more regions than the initial backlog held.
ScanFinishes ==
    IF children = <<>> THEN 0 ELSE children[Len(children)].post.nfin

C8_ExpandFillsBacklog ==
    (pc = "done" /\ regions0.expand.y) =>
        /\ regions.backlog = <<>>
        /\ Len(result.frames) >= 1 + Len(regions0.backlog)
        /\ ScanFinishes <= Len(regions0.backlog)
              => Len(result.frames) = 1 + Len(regions0.backlog)

C8_Witness ==
    /\ pc = "done" /\ regions0.expand.y
    /\ Len(regions0.backlog) = 2
    /\ children # <<>>
    /\ ScanFinishes = 0
    /\ Len(result.frames) = 3
    /\ result.frames[3].subs = <<>>

\* C9: finish_region on an empty item buffer (so fr = 0 and used = 0) gives
\* an output frame of size expand-selected(full, 0) per axis without
\* sub-frames, and doing so again gives one more such frame each time.
EmptyRegion(i) == log[i].items = <<>>

C9_EmptyRegionFrame ==
    /\ LogMatchesFinished
    /\ \A i \in 1..Len(log) :
          EmptyRegion(i) =>
              /\ log[i].fr = 0 /\ log[i].used = SizeZero
              /\ finished[i].size.x = (IF regions0.expand.x THEN log[i].full.x ELSE 0)
              /\ finished[i].size.y = (IF regions0.expand.y THEN log[i].full.y ELSE 0)
              /\ finished[i].subs = <<>>
    /\ \A c \in 1..Len(children) :
          (children[c].type = "Colbreak" /\ children[c].pre.items = <<>>)
              => (Advances(c) = 1 /\ EmptyRegion(children[c].post.nfin))

C9_Witness ==
    /\ Len(log) >= 3
    /\ EmptyRegion(1) /\ EmptyRegion(2) /\ EmptyRegion(3)
    /\ \E c \in 1..(Len(children) - 1) :
          children[c].type = "Colbreak" /\ children[c + 1].type = "Colbreak"
    /\ finished[1].size # finished[2].size

\* C10: if the block layout of a content child fails, FlowNode::layout
\* returns that error and no frames: the failing child is the last one
\* dispatched, finish() is not run, and nothing but a failing block layout
\* makes the call fail.
Fails(c) == children[c].type = "Node" /\ ~children[c].node.outcome.ok

C10_ErrorPropagates ==
    /\ \A c \in 1..Len(children) : Fails(c) => (c = Len(children) /\ pc = "failed")
    /\ pc = "failed" =>
          /\ children # <<>> /\ Fails(Len(children))
          /\ result = [kind |-> "Err", frames |-> <<>>,
                       err |-> children[Len(children)].node.outcome.err]
          /\ Len(finished) = children[Len(children)].post.nfin
          /\ items = children[Len(children)].post.items
    /\ result.kind = "Err" => pc = "failed"
    /\ result.kind = "Ok" => pc = "done"

C10_Witness ==
    /\ pc = "failed"
    /\ Len(children) = 3
    /\ children[1].type = "Node" /\ children[2].type = "Spacing"
    /\ result.err = "E2"

\* C11 as stated: whenever layout_node calls the block layout of a content
\* child, in-flow or placed, the region it offers is not full, for every
\* child list and every region set, also one whose backlog is exhausted.
BlockLayoutCalls == {c \in 1..Len(children) : children[c].type = "Node"}

AbsoluteSpacings ==
    {c \in 1..Len(children) :
        children[c].type = "Spacing" /\ children[c].spacing.variant = "Relative"}

\* What child c added to the used height, and the length its spacing
\* resolved to (the value of the Absolute item it staged).
Accounted(c) == children[c].post.used.y - children[c].pre.used.y

Resolved(c) == children[c].post.items[Len(children[c].post.items)].v

\* Child c stayed in the region it began in.
SameRegion(c) == children[c].post.nfin = children[c].pre.nfin

InFlowCalls == {c \in NodeCalls : ~children[c].node.placed}

LastFrameId(c) == <<c, Len(children[c].node.outcome.frames)>>

\* The Frame item with this id is among the items of finished region i.
InRegion(i, id) ==
    \E j \in 1..Len(log[i].items) :
        log[i].items[j].kind = "Frame" /\ log[i].items[j].frame.id = id

InOutput(i, id) ==
    \E j \in 1..Len(finished[i].subs) : finished[i].subs[j].frame.id = id

\* Child d, dispatched right after a node, adds to the buffer it finds.
Follows(d) ==
    /\ d <= Len(children)
    /\ \/ children[d].type = "Spacing"
       \/ d \in NodeCalls /\ children[d].pre.first.y > 0

IsPrefix(s, t) == Len(s) <= Len(t) /\ \A j \in 1..Len(s) : t[j] = s[j]

C13_LastFrameStaysStaged ==
    /\ LogMatchesFinished
    /\ \A c \in InFlowCalls :
          LET post == children[c].post
          IN  /\ post.items # <<>>
              /\ post.items[Len(post.items)].kind = "Frame"
              /\ post.items[Len(post.items)].frame.id = LastFrameId(c)
              /\ \A i \in 1..Len(log) : InRegion(i, LastFrameId(c)) => i > post.nfin
              /\ Follows(c + 1) =>
                    LET next == children[c + 1]
                    IN  /\ next.pre.items = post.items
                        /\ IF SameRegion(c + 1)
                           THEN /\ IsPrefix(post.items, next.post.items)
                                /\ Len(next.post.items) = Len(post.items) + 1
                           ELSE /\ IsPrefix(post.items, log[post.nfin + 1].items)
                                /\ Len(log[post.nfin + 1].items) = Len(post.items) + 1
              /\ (c + 1 \in InFlowCalls /\ Follows(c + 1)) =>
                    \A i \in 1..Len(finished) :
                        InOutput(i, LastFrameId(c)) <=> InOutput(i, <<c + 1, 1>>)

C13_Witness ==
    /\ pc = "done"
    /\ \E c \in InFlowCalls :
          /\ Len(children[c].node.outcome.frames) = 2
          /\ c + 1 \in InFlowCalls
          /\ children[c + 1].pre.first.y > 0
          /\ \E i \in 1..Len(finished) :
                /\ InOutput(i, LastFrameId(c)) /\ InOutput(i, <<c + 1, 1>>)
                /\ ~InOutput(i, <<c, 1>>)

\* C14 as stated: in every finished region whose spacings are non-negative,
\* Frame items never overlap vertically whatever their vertical alignments:
\* a Frame item staged after another is positioned at or below the other's
\* position plus the other's height.
NonNegativeSpacings(e) ==
    \A j \in 1..Len(e.items) : e.items[j].kind = "Absolute" => e.items[j].v >= 0

\* The vertical position given to the frame with this id in output frame i.
PosY(i, id) ==
    LET j == CHOOSE j \in 1..Len(finished[i].subs) : finished[i].subs[j].frame.id = id
    IN  finished[i].subs[j].pos.y

\* p + h <= q for positions, either of which may be infinite.
Below(p, h, q) == q.d = 0 \/ (p.d # 0 /\ RatLeq(RatAdd(p, RatOf(h)), q))

Stacked(i) ==
    LET fs == ItemsOfKind(log[i].items, "Frame")
    IN  \A a, b \in 1..Len(fs) :
            a < b => Below(PosY(i, fs[a].frame.id), fs[a].frame.size.y,
                           PosY(i, fs[b].frame.id))

C14_Original ==
    \A i \in 1..Len(log) : NonNegativeSpacings(log[i]) => Stacked(i)

\* C14 amended: in every finished region whose spacings are non-negative
\* and whose used height does not exceed its full height, Frame items never
\* overlap vertically whatever their vertical alignments: a Frame item
\* staged after another is positioned at or below the other's position plus
\* the other's height.  (In an overfull region the free space and the
\* fractional shares are negative and a later frame can be placed higher.)
C14_FramesStack ==
    /\ LogMatchesFinished
    /\ \A i \in 1..Len(log) :
          (NonNegativeSpacings(log[i]) /\ log[i].used.y <= log[i].full.y) => Stacked(i)

C14_Witness ==
    \E i \in 1..Len(log) :
        LET fs == ItemsOfKind(log[i].items, "Frame")
        IN  /\ NonNegativeSpacings(log[i]) /\ log[i].used.y < log[i].full.y
            /\ regions0.expand.y /\ IsFinite(log[i].full.y)
            /\ Len(fs) = 2
            /\ fs[1].aligns.y = "Bottom" /\ fs[2].aligns.y = "Top"
            /\ PosY(i, fs[1].frame.id) = RatOf(log[i].full.y - log[i].used.y)
            /\ PosY(i, fs[2].frame.id)
                  = RatOf(log[i].full.y - log[i].used.y + fs[1].frame.size.y)

\* C15 as stated: whenever a Fractional item is resolved during region
\* finishing the region's fractional total is strictly positive, also when
\* the only fractional spacers staged have weight zero.
HasFractional(e) == \E j \in 1..Len(e.items) : e.items[j].kind = "Fractional"

C15_Original ==
    \A i \in 1..Len(log) : HasFractional(log[i]) => log[i].fr > 0

\* C15 amended: the fractional total a region is finished with is the sum of
\* the weights of its Fractional items, so it is strictly positive whenever
\* a Fractional item of positive weight is resolved; when the only
\* fractional spacers staged have weight zero the items are resolved all
\* the same, with a total of zero, and each advances the offset by zero.
C15_FractionalTotal ==
    \A i \in 1..Len(log) :
        LET e == log[i]
        IN  /\ e.fr = SumSeq(Weights(e.items))
            /\ HasPositiveFr(e.items) => e.fr > 0
            /\ (HasFractional(e) /\ e.fr = 0) =>
                  \A j \in 1..Len(e.items) :
                      e.items[j].kind = "Fractional"
                          => (e.items[j].v = 0 /\ e.contrib[j] = RatZero)

C15_Witness ==
    \E i \in 1..Len(log) :
        LET e == log[i]
        IN  /\ IsFinite(e.full.y) /\ e.fr = 0
            /\ Len(e.items) = 3
            /\ e.items[1].kind = "Fractional" /\ e.items[2].kind = "Fractional"
            /\ e.items[3].kind = "Frame"
            /\ finished[i].subs[1].pos.y = RatZero

\* C16: in a region of infinite height fractional spacing resolves to zero
\* extent: every Fractional item advances the offset by 0, the output height
\* is expand-selected(full, used) with the used height as it was, not
\* forced to the full height, and the frames are positioned as they are
\* with the Fractional items left out.
WithoutFractional(its) == SelectSeq(its, LAMBDA it : it.kind # "Fractional")

C16_Region(i) ==
    LET e == log[i]
        ctx == [size |-> finished[i].size, usedy |-> e.used.y, fr |-> 0,
                remaining |-> Inf]
    IN  /\ \A j \in 1..Len(e.items) :
              e.items[j].kind = "Fractional" => e.contrib[j] = RatZero
        /\ finished[i].size.y = (IF regions0.expand.y THEN Inf ELSE e.used.y)
        /\ finished[i].subs = PlaceItems(WithoutFractional(e.items), 1, RatZero, "Top", ctx)

C16_UnboundedFractional ==
    /\ LogMatchesFinished
    /\ \A i \in 1..Len(log) :
          (log[i].full.y = Inf /\ HasFractional(log[i])) => C16_Region(i)

C16_Witness ==
    \E i \in 1..Len(log) :
        LET e == log[i]
        IN  /\ e.full.y = Inf /\ e.fr = 3 /\ ~regions0.expand.y
            /\ Len(e.items) = 3
            /\ e.items[1].kind = "Fractional"
            /\ e.items[2].kind = "Frame"
            /\ e.items[3].kind = "Fractional"
            /\ finished[i].size.y = e.items[2].frame.size.y
            /\ finished[i].subs[1].pos.y = RatZero

\* C17: after every finish_region the staged buffer is empty, the used size
\* and the fractional total are zero, full is the first size of the region
\* now current, and exactly one frame was appended to the finished list
\* while the frames finished earlier are unchanged; so every staged item is
\* consumed exactly once, in arrival order, into the frame of the region it
\* was staged in.
ItemTag(it) == <<it.kind, it.frame.id, IF it.kind = "Fractional" THEN it.v ELSE 0>>

\* The items child c stages, by kind, frame and weight.
StagedBy(c) ==
    LET ch == children[c]
    IN  IF ch.type = "Spacing"
        THEN (IF ch.spacing.variant = "Relative" THEN <<<<"Absolute", <<0, 0>>, 0>>>>
              ELSE <<<<"Fractional", <<0, 0>>, ch.spacing.fr>>>>)
        ELSE IF ch.type = "Node" /\ ch.node.outcome.ok
        THEN (IF ch.node.placed THEN <<<<"Placed", <<c, 1>>, 0>>>>
              ELSE [j \in 1..Len(ch.node.outcome.frames) |-> <<"Frame", <<c, j>>, 0>>])
        ELSE <<>>

RECURSIVE Arrived(_)
Arrived(c) == IF c = 0 THEN <<>> ELSE Arrived(c - 1) \o StagedBy(c)

RECURSIVE Consumed(_)
Consumed(i) ==
    IF i = 0 THEN <<>>
    ELSE Consumed(i - 1) \o [j \in 1..Len(log[i].items) |-> ItemTag(log[i].items[j])]

\* The frames of output frame i are the Frame and Placed items of region i.
FramesOfRegion(i) ==
    LET fs == SelectSeq(log[i].items, LAMBDA it : it.kind \in {"Frame", "Placed"})
    IN  /\ Len(finished[i].subs) = Len(fs)
        /\ \A j \in 1..Len(fs) : finished[i].subs[j].frame = fs[j].frame

JustFinished ==
    \/ pc = "done"
    \/ pc = "scan" /\ children # <<>> /\ children[Len(children)].type = "Colbreak"

C17_State ==
    /\ LogMatchesFinished
    /\ Consumed(Len(log)) \o [j \in 1..Len(items) |-> ItemTag(items[j])]
          = Arrived(Len(children))
    /\ \A i \in 1..Len(log) : FramesOfRegion(i)
    /\ JustFinished =>
          (items = <<>> /\ used = SizeZero /\ fr = 0 /\ full = regions.first)
    /\ \A c \in 1..Len(children) :
          children[c].type = "Colbreak" =>
              /\ Advances(c) = 1
              /\ children[c].post.items = <<>>
              /\ children[c].post.used = SizeZero
              /\ children[c].post.fr = 0
              /\ log[children[c].post.nfin].items = children[c].pre.items

C17_Step == IsPrefix(finished, finished')

C17_FinishRegionResets == []C17_State /\ [][C17_Step]_vars

C17_Witness ==
    /\ pc = "done"
    /\ Len(finished) = 2
    /\ \E c \in 1..Len(children) :
          /\ children[c].type = "Colbreak"
          /\ children[c].pre.fr > 0
          /\ children[c].pre.used.y > 0
          /\ Len(children[c].pre.items) = 2

\* C18: between operations on a region of finite height, the used height
\* plus the remaining height of the current region equals the full height:
\* used.y + regions.first.y = full.y.
C18_UsedPlusRemaining ==
    IsFinite(full.y) => used.y + regions.first.y = full.y

C18_Witness ==
    /\ IsFinite(full.y)
    /\ Len(finished) >= 1
    /\ Len(items) >= 2
    /\ used.y > 0
    /\ regions.first.y > 0
    /\ \E j \in 1..Len(items) : items[j].kind = "Absolute"
    /\ \E j \in 1..Len(items) : items[j].kind = "Frame"

\* C19: when the spacings are non-negative and every child frame is no
\* taller than the remaining height offered to it, no frame is pushed
\* outside its output frame, although absolute spacing is staged unclamped
\* and accounted clamped: each in-flow Frame item of a finished frame has
\* 0 <= y and y + height <= height of the output frame.
\* The height offered to a frame: what remained of the region handed to
\* layout_block for the node's first frame, the full height of the region
\* that finish_region opened for a later one.
OfferedHeight(i, f) ==
    IF f.id[2] = 1 THEN children[f.id[1]].offered.first.y ELSE log[i].full.y

FramesFit(i) ==
    LET fs == ItemsOfKind(log[i].items, "Frame")
    IN  \A a \in 1..Len(fs) : fs[a].frame.size.y <= OfferedHeight(i, fs[a].frame)

Inside(i) ==
    LET fs == ItemsOfKind(log[i].items, "Frame")
    IN  \A a \in 1..Len(fs) :
            LET y == PosY(i, fs[a].frame.id)
            IN  /\ y.d = 0 \/ y.n >= 0
                /\ Below(y, fs[a].frame.size.y, RatOf(finished[i].size.y))

C19_FramesInside ==
    /\ LogMatchesFinished
    /\ \A i \in 1..Len(log) : (NonNegativeSpacings(log[i]) /\ FramesFit(i)) => Inside(i)

C19_Witness ==
    \E i \in 1..Len(log) :
        /\ i < Len(log)
        /\ NonNegativeSpacings(log[i]) /\ FramesFit(i) /\ FramesFit(i + 1)
        /\ IsFinite(log[i].full.y)
        /\ log[i].used.y = log[i].full.y
        /\ Len(log[i].items) = 2
        /\ log[i].items[1].kind = "Frame"
        /\ log[i].items[2].kind = "Absolute"
        /\ log[i].items[2].v > log[i].acct[1]
        /\ ItemsOfKind(log[i + 1].items, "Frame") # <<>>

\* C20: when the block layouts succeed, FlowNode::layout terminates and
\* returns a non-empty list of frames in which child order is preserved: if
\* child a precedes child b, every frame of a lies in an output frame whose
\* index is at most that of every frame of b, strictly less when a Colbreak
\* lies between them, and within one output frame the frames are pushed in
\* child order.
\* The frames child c contributes: the first one of a placed node, all of an
\* in-flow node.
FrameIds(c) ==
    IF children[c].node.placed THEN {<<c, 1>>}
    ELSE {<<c, j>> : j \in 1..Len(children[c].node.outcome.frames)}

\* Where the frame with this id sits: <<output frame, index in it>>.
Locs(id) ==
    {<<i, j>> \in (1..Len(finished)) \X (1..MaxChildren * 2) :
        j <= Len(finished[i].subs) /\ finished[i].subs[j].frame.id = id}

ColbreakBetween(a, b) ==
    \E c \in 1..Len(children) : a < c /\ c < b /\ children[c].type = "Colbreak"

OrderKept ==
    \A a, b \in NodeCalls :
        a < b =>
            \A fa \in FrameIds(a), fb \in FrameIds(b) :
                \A la \in Locs(fa), lb \in Locs(fb) :
                    /\ la[1] <= lb[1]
                    /\ ColbreakBetween(a, b) => la[1] < lb[1]
                    /\ la[1] = lb[1] => la[2] < lb[2]

Returned ==
    /\ pc = "done" =>
          /\ result.kind = "Ok"
          /\ result.frames = finished
          /\ Len(result.frames) >= 1
          /\ \A c \in NodeCalls : \A f \in FrameIds(c) : Cardinality(Locs(f)) = 1
    /\ pc = "failed" => Len(children) > 0 /\ Fails(Len(children))

\* Whatever children were dispatched, finish yields a non-empty frame list.
CanFinish == pc = "scan" => Len(Finish(St).finished) >= 1

\* Every step is taken by the loop, and it either consumes one more child of
\* the finite list or returns; after the return no step is taken.
LoopStep ==
    /\ pc = "scan"
    /\ \/ pc' = "scan" /\ Len(children') = Len(children) + 1
       \/ pc' = "failed" /\ Len(children') = Len(children) + 1
       \/ pc' = "done" /\ children' = children

C20_OrderPreserved == [](OrderKept /\ Returned /\ CanFinish) /\ [][LoopStep]_vars

C20_Witness ==
    /\ pc = "done"
    /\ Len(result.frames) = 3
    /\ \E a, b \in NodeCalls :
          /\ a < b /\ ColbreakBetween(a, b)
          /\ children[a].node.placed
          /\ Len(children[b].node.outcome.frames) = 2

====
